---------------------------- MODULE Spec2Model ----------------------------
(***************************************************************************)
(* Model of pkg/mountinfo/mountinfo.go: the mount table parser             *)
(* (parseMountInfoFile) and the mount point detector (IsMountFS).          *)
(*                                                                         *)
(* A line is a sequence of one-character strings.  The parser is modelled  *)
(* one loop iteration per step; the detector one system call per step.     *)
(***************************************************************************)
EXTENDS Integers, Sequences, FiniteSets, TLC

(***************************************************************************)
(* Bounds of the model.                                                    *)
(***************************************************************************)
MaxLines == 3
MaxOptional == 2
MaxDashes == 2
MaxRight == 4
MaxDev == 2

(***************************************************************************)
(* strings.Split, strings.Join and strconv.ParseInt as the parser uses     *)
(* them.                                                                   *)
(***************************************************************************)
Space == <<" ">>
Separator == <<" ", "-", " ">>

\* strings.Index: 1-based position of the first occurrence of sep, 0 if none
Index(s, sep) ==
  LET hits == {i \in 1..Len(s) : /\ i + Len(sep) - 1 <= Len(s)
                                 /\ SubSeq(s, i, i + Len(sep) - 1) = sep}
  IN IF hits = {} THEN 0 ELSE CHOOSE i \in hits : \A j \in hits : i <= j

RECURSIVE Split(_, _)
Split(s, sep) ==
  LET i == Index(s, sep)
  IN IF i = 0 THEN <<s>>
     ELSE <<SubSeq(s, 1, i - 1)>> \o Split(SubSeq(s, i + Len(sep), Len(s)), sep)

RECURSIVE Join(_, _)
Join(fields, sep) ==
  IF Len(fields) = 0 THEN <<>>
  ELSE IF Len(fields) = 1 THEN fields[1]
  ELSE fields[1] \o sep \o Join(Tail(fields), sep)

Digits == <<"0", "1", "2", "3", "4", "5", "6", "7", "8", "9">>

IsDigit(c) == \E d \in 1..10 : Digits[d] = c

DigitVal(c) == (CHOOSE d \in 1..10 : Digits[d] = c) - 1

RECURSIVE StripZeros(_)
StripZeros(ds) ==
  IF Len(ds) > 1 /\ ds[1] = "0" THEN StripZeros(Tail(ds)) ELSE ds

\* the decimal digits of 2^63 - 1, the largest int64
MaxInt64Digits ==
  <<"9","2","2","3","3","7","2","0","3","6","8","5","4","7","7","5","8","0","7">>

\* the decimal digits of 2^63, the magnitude of the smallest int64
MinInt64Digits ==
  <<"9","2","2","3","3","7","2","0","3","6","8","5","4","7","7","5","8","0","8">>

RECURSIVE DigitsLeq(_, _)
\* a <= b for two digit strings of the same length
DigitsLeq(a, b) ==
  IF Len(a) = 0 THEN TRUE
  ELSE IF DigitVal(a[1]) < DigitVal(b[1]) THEN TRUE
  ELSE IF DigitVal(a[1]) > DigitVal(b[1]) THEN FALSE
  ELSE DigitsLeq(Tail(a), Tail(b))

InRange(ds, neg) ==
  LET n == StripZeros(ds)
      lim == IF neg THEN MinInt64Digits ELSE MaxInt64Digits
  IN \/ Len(n) < Len(lim)
     \/ Len(n) = Len(lim) /\ DigitsLeq(n, lim)

RECURSIVE DigitsValue(_, _)
DigitsValue(ds, acc) ==
  IF Len(ds) = 0 THEN acc ELSE DigitsValue(Tail(ds), acc * 10 + DigitVal(ds[1]))

NoError == [kind |-> "nil", msg |-> "", arg |-> <<>>]

\* *strconv.NumError{Func: "ParseInt", Num: s, Err: e}
NumError(s, e) == [kind |-> "NumError", msg |-> e, arg |-> s]

\* strconv.ParseInt(s, 10, 64)
ParseInt(s) ==
  IF Len(s) = 0 THEN [val |-> 0, err |-> NumError(s, "ErrSyntax")]
  ELSE LET neg == s[1] = "-"
           ds == IF s[1] = "+" \/ s[1] = "-" THEN Tail(s) ELSE s
       IN IF Len(ds) = 0 \/ \E i \in 1..Len(ds) : ~IsDigit(ds[i])
          THEN [val |-> 0, err |-> NumError(s, "ErrSyntax")]
          ELSE IF ~InRange(ds, neg)
          THEN [val |-> 0, err |-> NumError(s, "ErrRange")]
          ELSE [val |-> IF neg THEN 0 - DigitsValue(ds, 0) ELSE DigitsValue(ds, 0),
                err |-> NoError]

(***************************************************************************)
(* The loop body of parseMountInfoFile on one line.                        *)
(***************************************************************************)
\* fmt.Errorf(format, mountInfoRaw): the message embeds the raw line
Errorf(format, mountInfoRaw) == [kind |-> "Errorf", msg |-> format, arg |-> mountInfoRaw]

SeparatorCountLoose(mountInfoSeparated) == Len(mountInfoSeparated) >= 2

SeparatorCountOK(mountInfoSeparated) == Len(mountInfoSeparated) = 2

LeftCountOK(mountInfoLeft) == Len(mountInfoLeft) >= 6

RightCountOK(mountInfoRight) == Len(mountInfoRight) = 3

OptionalFieldsShifted(mountInfoLeft) == SubSeq(mountInfoLeft, 6, Len(mountInfoLeft))

\* for i := 6; i < len(mountInfoLeft); i++ { append(optionalFields, ...) }
OptionalFields(mountInfoLeft) == SubSeq(mountInfoLeft, 7, Len(mountInfoLeft))

MountInfo(mountID, parentID, mountInfoLeft, mountInfoRight) ==
  [MountID |-> mountID,
   ParentID |-> parentID,
   StDev |-> mountInfoLeft[3],
   Root |-> mountInfoLeft[4],
   MountPoint |-> mountInfoLeft[5],
   MountOptions |-> mountInfoLeft[6],
   OptionalFields |-> OptionalFields(mountInfoLeft),
   FilesystemType |-> mountInfoRight[1],
   MountSource |-> mountInfoRight[2],
   SuperOptions |-> mountInfoRight[3]]

ConvErrorWrapped(e, mountInfoRaw) == Errorf("invalid mountinfo entry: %s", mountInfoRaw)

\* return nil, err  (the strconv error, returned unchanged)
ConvError(e, mountInfoRaw) == e

\* The outcome of one iteration: an error to return, or an entry to append.
ParseLine(mountInfoRaw) ==
  LET mountInfoSeparated == Split(mountInfoRaw, Separator)
  IN IF ~SeparatorCountOK(mountInfoSeparated)
     THEN [err |-> Errorf("invalid mountinfo entry which has more that one '-' separator: %s",
                          mountInfoRaw)]
     ELSE
     LET mountInfoLeft == Split(mountInfoSeparated[1], Space)
         mountInfoRight == Split(mountInfoSeparated[2], Space)
     IN IF ~LeftCountOK(mountInfoLeft)
        THEN [err |-> Errorf("invalid mountinfo entry: %s", mountInfoRaw)]
        ELSE IF ~RightCountOK(mountInfoRight)
        THEN [err |-> Errorf("invalid mountinfo entry: %s", mountInfoRaw)]
        ELSE
        LET m == ParseInt(mountInfoLeft[1])
        IN IF m.err # NoError THEN [err |-> ConvError(m.err, mountInfoRaw)]
           ELSE
           LET p == ParseInt(mountInfoLeft[2])
           IN IF p.err # NoError THEN [err |-> ConvError(p.err, mountInfoRaw)]
              ELSE [err |-> NoError,
                    entry |-> MountInfo(m.val, p.val, mountInfoLeft, mountInfoRight)]

ReturnPartial(result, err) == [entries |-> result, err |-> err]

\* return nil, err
ReturnError(result, err) == [entries |-> <<>>, err |-> err]

AppendFront(result, entry) == <<entry>> \o result

\* result = append(result, &MountInfo{...})
AppendEntry(result, entry) == Append(result, entry)

(***************************************************************************)
(* The input streams.  A line is built as the kernel prints it: fields     *)
(* joined by single spaces, a "-" field closing the optional fields.       *)
(***************************************************************************)
Dash == <<"-">>

\* texts for the mountID and for the parentID, integers and not
IdFields == {<<"1", "7">>, <<"-", "1">>, <<"1", "a">>, <<>>}

ParentFields == {<<"+", "2">>, <<"x">>}

MidFields == << <<"8", ":", "1">>, <<"/">>, <<"/", "m">>, <<"r", "w">> >>

OptFields == {<<"s", ":", "1">>, <<"m">>, Dash}

RightFields == << <<"e", "x", "t">>, <<"d", "e", "v">>, <<"r", "o">>, <<"x">>, <<"y">>, <<"z">> >>

SeqsUpTo(S, n) == UNION {[1..k -> S] : k \in 0..n}

GenLine(id0, id1, nmid, opts, ndash, nright) ==
  Join(<<id0, id1>> \o SubSeq(MidFields, 1, nmid) \o opts
         \o [k \in 1..ndash |-> Dash] \o SubSeq(RightFields, 1, nright), Space)

Lines ==
  {GenLine(id0, id1, nmid, opts, ndash, nright) :
     id0 \in IdFields, id1 \in ParentFields, nmid \in 3..4,
     opts \in SeqsUpTo(OptFields, MaxOptional),
     ndash \in 0..MaxDashes, nright \in 2..MaxRight}

\* a few whole lines for the streams of several lines
StreamLines ==
  {GenLine(<<"1", "7">>, <<"1">>, 4, <<>>, 1, 3),
   GenLine(<<"2">>, <<"1", "7">>, 4, << <<"s", ":", "1">> >>, 1, 3),
   GenLine(<<"3">>, <<"1">>, 4, <<>>, 0, 3),
   GenLine(<<"4">>, <<"a">>, 4, <<>>, 1, 3),
   GenLine(<<"5">>, <<"1">>, 4, <<>>, 1, 2),
   GenLine(<<"6">>, <<"1">>, 4, <<Dash, <<"a">>, <<"b">>, <<"c">> >>, 1, 3),
   <<>>}

Inputs == {<<l>> : l \in Lines} \cup SeqsUpTo(StreamLines, MaxLines)

(***************************************************************************)
(* IsMountFS: paths, the outcomes of the system calls, and the returns.    *)
(***************************************************************************)
\* unix.BPF_FS_MAGIC; a magic number is only compared, so it is kept as its
\* hexadecimal text
FilesystemTypeBPFFS == "0xcafe4a11"

\* unix.CGROUP2_SUPER_MAGIC
FilesystemTypeCgroup2 == "0x63677270"

Names == {"sys", "fs"}

\* a cleaned path: absolute or relative, and its elements
Paths == [abs : BOOLEAN, elems : SeqsUpTo(Names, 2)]

\* filepath.Dir: the root and "." are their own parents
Dir(p) ==
  IF Len(p.elems) = 0 THEN p
  ELSE [p EXCEPT !.elems = SubSeq(p.elems, 1, Len(p.elems) - 1)]

Errnos == {"ENOENT", "EACCES"}

\* what unix.Lstat can give: an errno, or a Stat_t with its Dev
LstatOutcomes ==
  [err : Errnos, Dev : {0}] \cup [err : {"nil"}, Dev : 1..MaxDev]

\* what unix.Statfs can give: an errno, or a Statfs_t with its Type
StatfsOutcomes ==
  [err : Errnos, Type : {"0x0"}]
    \cup [err : {"nil"}, Type : {FilesystemTypeBPFFS, FilesystemTypeCgroup2}]

NoStat == [err |-> "nil", Dev |-> 0]

NoStatfs == [err |-> "nil", Type |-> "0x0"]

NoPath == [abs |-> TRUE, elems |-> <<>>]

NoPathError == [Op |-> "", Path |-> NoPath, Err |-> "nil"]

\* &os.PathError{Op: op, Path: p, Err: err}
PathError(op, p, err) == [Op |-> op, Path |-> p, Err |-> err]

\* one entry of the history of system calls
Call(op, p, out) == [op |-> op, path |-> p, out |-> out]

Return(isMount, typeMatches, err) ==
  [isMountPoint |-> isMount, typeMatches |-> typeMatches, err |-> err]

AnyErrno(err) == TRUE

\* errors.Is(err, unix.ENOENT)
IsENOENT(err) == err = "ENOENT"

\* the return after unix.Lstat(path) failed
LstatPathFailed(p, err) ==
  IF IsENOENT(err) THEN Return(FALSE, FALSE, NoPathError)
  ELSE Return(FALSE, FALSE, PathError("lstat", p, err))

LstatParentFailedLenient(parent, err) ==
  IF IsENOENT(err) THEN Return(FALSE, FALSE, NoPathError)
  ELSE Return(FALSE, FALSE, PathError("lstat", parent, err))

\* the return after unix.Lstat(parent) failed
LstatParentFailed(parent, err) ==
  Return(FALSE, FALSE, PathError("lstat", parent, err))

SameDevNever(s, ps) == FALSE

\* st.Dev == pst.Dev
SameDev(s, ps) == s.Dev = ps.Dev

StatfsFailedNotMount(p, err) == Return(FALSE, FALSE, PathError("statfs", p, err))

\* the return after unix.Statfs(path) failed
StatfsFailed(p, err) == Return(TRUE, FALSE, PathError("statfs", p, err))

(***************************************************************************)
(* State.  A behaviour is one call: of parseMountInfoFile (pc starts at    *)
(* "scan", dpc stays "idle") or of IsMountFS (dpc starts at "lstat", pc    *)
(* stays "idle").                                                          *)
(***************************************************************************)
VARIABLES
  input,     \* the lines the scanner delivers, in order
  readErr,   \* whether the reader fails after the last line instead of ending
  pos,       \* number of lines scanned so far
  result,    \* parseMountInfoFile's local result
  pc,        \* "idle", "scan" or "done"
  ret,       \* what parseMountInfoFile returned: [entries, err]
  mntType,   \* IsMountFS's arguments
  path,
  st,        \* unix.Lstat(path, &st)
  pst,       \* unix.Lstat(parent, &pst)
  fst,       \* unix.Statfs(path, &fst)
  dpc,       \* "idle", "lstat", "lstatParent", "statfs" or "done"
  dret,      \* what IsMountFS returned
  calls      \* history: the system calls IsMountFS issued and their outcomes

parserVars == <<input, readErr, pos, result, pc, ret>>

detectorVars == <<mntType, path, st, pst, fst, dpc, dret, calls>>

vars == <<parserVars, detectorVars>>

ReadError == [kind |-> "ReadError", msg |-> "read failed", arg |-> <<>>]

InitParser ==
  /\ input \in Inputs
  /\ readErr \in BOOLEAN
  /\ pos = 0
  /\ result = <<>>
  /\ pc = "scan"
  /\ ret = [entries |-> <<>>, err |-> NoError]
  /\ mntType = FilesystemTypeBPFFS
  /\ path = NoPath
  /\ st = NoStat /\ pst = NoStat /\ fst = NoStatfs
  /\ dpc = "idle"
  /\ dret = Return(FALSE, FALSE, NoPathError)
  /\ calls = <<>>

InitDetector ==
  /\ input = <<>>
  /\ readErr = FALSE
  /\ pos = 0
  /\ result = <<>>
  /\ pc = "idle"
  /\ ret = [entries |-> <<>>, err |-> NoError]
  /\ mntType \in {FilesystemTypeBPFFS, FilesystemTypeCgroup2}
  /\ path \in Paths
  /\ st = NoStat /\ pst = NoStat /\ fst = NoStatfs
  /\ dpc = "lstat"
  /\ dret = Return(FALSE, FALSE, NoPathError)
  /\ calls = <<>>

Init == InitParser \/ InitDetector

\* scanner.Scan() delivers a line the loop body accepts
ScanAppend ==
  /\ pc = "scan"
  /\ pos < Len(input)
  /\ LET r == ParseLine(input[pos + 1])
     IN /\ r.err = NoError
        /\ result' = AppendEntry(result, r.entry)
  /\ pos' = pos + 1
  /\ UNCHANGED <<input, readErr, pc, ret, detectorVars>>

\* scanner.Scan() delivers a line the loop body rejects
ScanReject ==
  /\ pc = "scan"
  /\ pos < Len(input)
  /\ LET r == ParseLine(input[pos + 1])
     IN /\ r.err # NoError
        /\ ret' = ReturnError(result, r.err)
  /\ pos' = pos + 1
  /\ pc' = "done"
  /\ UNCHANGED <<input, readErr, result, detectorVars>>

\* scanner.Scan() returns false: scanner.Err() decides
ScanEnd ==
  /\ pc = "scan"
  /\ pos = Len(input)
  /\ ret' = IF readErr THEN ReturnError(result, ReadError)
            ELSE [entries |-> result, err |-> NoError]
  /\ pc' = "done"
  /\ UNCHANGED <<input, readErr, pos, result, detectorVars>>

\* err := unix.Lstat(path, &st) and the returns that follow a failure
LstatPath ==
  /\ dpc = "lstat"
  /\ \E out \in LstatOutcomes :
       /\ calls' = Append(calls, Call("lstat", path, out))
       /\ IF out.err # "nil"
          THEN /\ dret' = LstatPathFailed(path, out.err)
               /\ dpc' = "done"
               /\ st' = st
          ELSE /\ st' = out
               /\ dpc' = "lstatParent"
               /\ dret' = dret
  /\ UNCHANGED <<mntType, path, pst, fst, parserVars>>

\* err = unix.Lstat(parent, &pst), its failure, and the comparison of devices
LstatParent ==
  /\ dpc = "lstatParent"
  /\ LET parent == Dir(path)
     IN \E out \in LstatOutcomes :
          /\ calls' = Append(calls, Call("lstat", parent, out))
          /\ IF out.err # "nil"
             THEN /\ dret' = LstatParentFailed(parent, out.err)
                  /\ dpc' = "done"
                  /\ pst' = pst
             ELSE /\ pst' = out
                  /\ IF SameDev(st, out)
                     THEN /\ dret' = Return(FALSE, FALSE, NoPathError)
                          /\ dpc' = "done"
                     ELSE /\ dret' = dret
                          /\ dpc' = "statfs"
  /\ UNCHANGED <<mntType, path, st, fst, parserVars>>

StatfsRetry ==
  /\ dpc = "statfs"
  /\ \E out \in StatfsOutcomes :
       /\ calls' = Append(calls, Call("statfs", path, out))
       /\ fst' = out
       /\ IF out.err # "nil" /\ Len(calls) < 3
          THEN dret' = dret /\ dpc' = "statfs"
          ELSE /\ dpc' = "done"
               /\ dret' = IF out.err # "nil" THEN StatfsFailed(path, out.err)
                          ELSE Return(TRUE, out.Type = mntType, NoPathError)
  /\ UNCHANGED <<mntType, path, st, pst, parserVars>>

\* err = unix.Statfs(path, &fst) and the two returns after it
Statfs ==
  /\ dpc = "statfs"
  /\ \E out \in StatfsOutcomes :
       /\ calls' = Append(calls, Call("statfs", path, out))
       /\ IF out.err # "nil"
          THEN /\ dret' = StatfsFailed(path, out.err)
               /\ fst' = fst
          ELSE /\ fst' = out
               /\ dret' = Return(TRUE, out.Type = mntType, NoPathError)
       /\ dpc' = "done"
  /\ UNCHANGED <<mntType, path, st, pst, parserVars>>

Next == ScanAppend \/ ScanReject \/ ScanEnd \/ LstatPath \/ LstatParent \/ Statfs

Spec == Init /\ [][Next]_vars

(***************************************************************************)
(* What the claims say about a line, stated on the characters of the line  *)
(* and not through Split.                                                  *)
(***************************************************************************)
SepAt(line, i) == i + 2 <= Len(line) /\ SubSeq(line, i, i + 2) = Separator

\* every position where " - " occurs, overlapping occurrences included
Occurrences(line) == {i \in 1..Len(line) : SepAt(line, i)}

RECURSIVE DisjointFrom(_, _)
\* occurrences counted left to right, each one starting after the previous ends
DisjointFrom(line, i) ==
  IF i > Len(line) THEN 0
  ELSE IF SepAt(line, i) THEN 1 + DisjointFrom(line, i + 3)
  ELSE DisjointFrom(line, i + 1)

DisjointOccurrences(line) == DisjointFrom(line, 1)

FirstOccurrence(line) ==
  LET occ == Occurrences(line) IN CHOOSE i \in occ : \A j \in occ : i <= j

LeftPart(line) == SubSeq(line, 1, FirstOccurrence(line) - 1)

RightPart(line) == SubSeq(line, FirstOccurrence(line) + 3, Len(line))

\* the number of fields single spaces cut a text into
FieldCount(text) == 1 + Cardinality({i \in 1..Len(text) : text[i] = " "})

FirstField(text) ==
  LET sp == {i \in 1..Len(text) : text[i] = " "}
  IN IF sp = {} THEN text
     ELSE SubSeq(text, 1, (CHOOSE i \in sp : \A j \in sp : i <= j) - 1)

AfterFirstField(text) == SubSeq(text, Len(FirstField(text)) + 2, Len(text))

Field0(line) == FirstField(line)

Field1(line) == FirstField(AfterFirstField(line))

ValidInt64(f) ==
  /\ Len(f) > 0
  /\ LET ds == IF f[1] \in {"+", "-"} THEN Tail(f) ELSE f
     IN /\ Len(ds) > 0
        /\ \A i \in 1..Len(ds) : IsDigit(ds[i])
        /\ InRange(ds, f[1] = "-")

\* one separator, at least 6 fields before it and exactly 3 after it
ShapeOK(line) ==
  /\ DisjointOccurrences(line) = 1
  /\ FieldCount(LeftPart(line)) >= 6
  /\ FieldCount(RightPart(line)) = 3

WellFormed(line) ==
  /\ ShapeOK(line)
  /\ ValidInt64(Field0(line))
  /\ ValidInt64(Field1(line))

\* the same with every occurrence of the separator counted, as C2 words it
ShapeOKAllOccurrences(line) ==
  /\ Cardinality(Occurrences(line)) = 1
  /\ FieldCount(LeftPart(line)) >= 6
  /\ FieldCount(RightPart(line)) = 3

Malformed(line) == ~WellFormed(line)

MalformedAt == {i \in 1..Len(input) : Malformed(input[i])}

FirstMalformed == LET bad == MalformedAt IN CHOOSE i \in bad : \A j \in bad : i <= j

\* text occurs inside the message of error e
Carries(e, text) ==
  \E i \in 1..(Len(e.arg) + 1) :
    /\ i + Len(text) - 1 <= Len(e.arg)
    /\ SubSeq(e.arg, i, i + Len(text) - 1) = text

Returned == pc = "done"

\* the line the last iteration of the loop worked on
LastLine == input[pos]

\* entry e, written back in the kernel's format, gives the line
Represents(e, line) ==
  /\ line = Join(<<Field0(line), Field1(line), e.StDev, e.Root, e.MountPoint,
                   e.MountOptions>> \o e.OptionalFields
                 \o <<Dash, e.FilesystemType, e.MountSource, e.SuperOptions>>, Space)
  /\ ValidInt64(Field0(line)) /\ e.MountID = ParseInt(Field0(line)).val
  /\ ValidInt64(Field1(line)) /\ e.ParentID = ParseInt(Field1(line)).val
  /\ \A f \in {e.StDev, e.Root, e.MountPoint, e.MountOptions, e.FilesystemType,
               e.MountSource, e.SuperOptions} : \A i \in 1..Len(f) : f[i] # " "
  /\ \A k \in 1..Len(e.OptionalFields) :
       \A i \in 1..Len(e.OptionalFields[k]) : e.OptionalFields[k][i] # " "

(***************************************************************************)
(* Claims about the parser.                                                *)
(***************************************************************************)

\* C1: when some line of the stream is malformed, the scan never goes past
\* the first malformed line, no entry is recorded for it, and the call returns
\* there with an error and no entries at all.
C1_MalformedAbortsAll ==
  MalformedAt # {} =>
    LET first == FirstMalformed
    IN /\ pos <= first
       /\ Len(result) < first
       /\ Returned => /\ pos = first
                      /\ ret.err # NoError
                      /\ ret.entries = <<>>

\* C1 witness: a malformed third line after two well-formed ones was rejected
C1_Witness ==
  /\ Returned
  /\ MalformedAt # {} /\ FirstMalformed = 3 /\ Len(input) >= 3
  /\ Len(result) = 2
  /\ ret.err # NoError

\* C2 as written: a line with zero or two or more occurrences of " - "
\* (every occurrence counted), or fewer than 6 left fields, or other than 3
\* right fields, is rejected with a parse error and gives no entry.
C2_Original ==
  (pos >= 1 /\ ~ShapeOKAllOccurrences(LastLine)) =>
    /\ Returned
    /\ ret.err # NoError
    /\ ret.entries = <<>>
    /\ Len(result) = pos - 1

\* C2 amended: a line with zero or two or more occurrences of " - " counted
\* left to right without overlap, or fewer than 6 left fields, or other than 3
\* right fields, is rejected with a parse error carrying the line, and gives
\* no entry.
C2_ShapeRejected ==
  (pos >= 1 /\ ~ShapeOK(LastLine)) =>
    /\ Returned
    /\ ret.err.kind = "Errorf" /\ ret.err.arg = LastLine
    /\ ret.entries = <<>>
    /\ Len(result) = pos - 1

\* C2 witness: a line with two disjoint separators was rejected
C2_Witness ==
  /\ Returned /\ pos >= 1
  /\ DisjointOccurrences(LastLine) >= 2
  /\ ret.err.kind = "Errorf"

\* a line with two overlapping separators and nothing else wrong was accepted
C2_OverlapAccepted ==
  /\ pos >= 1
  /\ Cardinality(Occurrences(LastLine)) = 2
  /\ Len(result) = pos

OffendingField(line) ==
  IF ~ValidInt64(Field0(line)) THEN Field0(line) ELSE Field1(line)

BadIdLine(line) ==
  /\ ShapeOK(line)
  /\ ~ValidInt64(Field0(line)) \/ ~ValidInt64(Field1(line))

C4_FieldsByPosition ==
  \A i \in 1..Len(result) :
    /\ Represents(result[i], input[i])
    /\ Len(result[i].OptionalFields) = FieldCount(LeftPart(input[i])) - 6

\* C4 witness: entries with no optional field and with two were recorded
C4_Witness ==
  /\ Len(result) = 1
  /\ Len(result[1].OptionalFields) = 2
  /\ result[1].OptionalFields[1] # result[1].OptionalFields[2]

C5_EmptyWitness == Returned /\ ~readErr /\ input = <<>> /\ ret.err = NoError

(***************************************************************************)
(* Claims about IsMountFS, stated on the history of system calls and the   *)
(* return.                                                                 *)
(***************************************************************************)
DReturned == dpc = "done"

Failed(k) == Len(calls) >= k /\ calls[k].out.err # "nil"

Succeeded(k) == Len(calls) >= k /\ calls[k].out.err = "nil"

DevicesDiffer == Succeeded(1) /\ Succeeded(2) /\ calls[1].out.Dev # calls[2].out.Dev

\* C6: when lstat of the path fails with ENOENT the call returns
\* (false, false) and no error; when it fails otherwise the call returns
\* (false, false) and an error naming "lstat", the path and the cause.
C6_FirstLstatFails ==
  (DReturned /\ Failed(1)) =>
    /\ Len(calls) = 1
    /\ calls[1].op = "lstat" /\ calls[1].path = path
    /\ ~dret.isMountPoint /\ ~dret.typeMatches
    /\ IF calls[1].out.err = "ENOENT"
       THEN dret.err = NoPathError
       ELSE dret.err = [Op |-> "lstat", Path |-> path, Err |-> calls[1].out.err]

\* C6 witness: lstat of the path failed with EACCES and the call returned
C6_Witness == DReturned /\ Failed(1) /\ calls[1].out.err = "EACCES"

\* lstat of the path failed with ENOENT and the call returned
C6_WitnessENOENT == DReturned /\ Failed(1) /\ calls[1].out.err = "ENOENT"

\* C7: when every query succeeds, isMountPoint says whether the two devices
\* differ, typeMatches whether they differ and the filesystem type is the
\* expected one, and there is no error; typeMatches never holds without
\* isMountPoint.
C7_AllQueriesSucceed ==
  /\ (DReturned /\ \A k \in 1..Len(calls) : Succeeded(k)) =>
       /\ dret.err = NoPathError
       /\ dret.isMountPoint = DevicesDiffer
       /\ dret.typeMatches = (DevicesDiffer /\ Len(calls) = 3
                                /\ calls[3].out.Type = mntType)
       /\ DevicesDiffer => Len(calls) = 3 /\ calls[3].op = "statfs"
  /\ dret.typeMatches => dret.isMountPoint

\* C7 witness: equal devices gave (false, false)
C7_Witness ==
  /\ DReturned /\ Succeeded(1) /\ Succeeded(2)
  /\ calls[1].out.Dev = calls[2].out.Dev
  /\ ~dret.isMountPoint

\* different devices and the expected type gave (true, true)
C7_WitnessMatch == DReturned /\ dret.isMountPoint /\ dret.typeMatches

\* different devices and another type gave (true, false) without error
C7_WitnessMismatch ==
  DReturned /\ dret.isMountPoint /\ ~dret.typeMatches /\ dret.err = NoPathError

\* C8: when the devices differ and statfs of the path fails, the call returns
\* an error together with isMountPoint = true and typeMatches = false.
C8_StatfsFails ==
  (DReturned /\ DevicesDiffer /\ Failed(3)) =>
    /\ calls[3].op = "statfs"
    /\ dret.err = [Op |-> "statfs", Path |-> path, Err |-> calls[3].out.err]
    /\ dret.isMountPoint
    /\ ~dret.typeMatches

\* C8 witness: statfs failed after two lstat calls gave different devices
C8_Witness == DReturned /\ DevicesDiffer /\ Failed(3)

ExpectedCalls == << [op |-> "lstat", path |-> path],
                    [op |-> "lstat", path |-> Dir(path)],
                    [op |-> "statfs", path |-> path] >>

\* C9 as written: every call that returned issued two or three queries.
C9_Original == DReturned => Len(calls) \in {2, 3}

\* C9 amended: every call issues one, two or three queries, in the order
\* lstat of the path, lstat of the parent, statfs of the path, each at most
\* once; one when lstat of the path fails, two when the parent's lstat fails
\* or the devices are equal, three otherwise.
C9_QueryCount ==
  /\ Len(calls) <= 3
  /\ \A k \in 1..Len(calls) :
       calls[k].op = ExpectedCalls[k].op /\ calls[k].path = ExpectedCalls[k].path
  /\ DReturned =>
       Len(calls) = IF Failed(1) THEN 1
                    ELSE IF DevicesDiffer THEN 3
                    ELSE 2

\* C9 witness: a call that issued all three queries returned
C9_Witness == DReturned /\ Len(calls) = 3

\* a call that issued one query only returned
C9_OneQuery == DReturned /\ Len(calls) = 1

\* C10: once lstat of the path has succeeded, any failure of lstat of the
\* parent, ENOENT included, is returned as an error with (false, false), and
\* statfs is not issued.
C10_ParentLstatFails ==
  (DReturned /\ Succeeded(1) /\ Failed(2)) =>
    /\ Len(calls) = 2
    /\ dret.err = [Op |-> "lstat", Path |-> Dir(path), Err |-> calls[2].out.err]
    /\ ~dret.isMountPoint /\ ~dret.typeMatches

\* C10 witness: lstat of the parent failed with ENOENT after the path's succeeded
C10_Witness ==
  DReturned /\ Succeeded(1) /\ Failed(2) /\ calls[2].out.err = "ENOENT"

============================================================================
